---------------------------- MODULE Spec2Model ----------------------------
(***************************************************************************)
(* Model of price_scraper_converter.py: the paginated collector            *)
(* (scrape_books), the rate lookup (get_exchange_rate), the converter      *)
(* (convert_prices), the CSV sink (save_to_csv) and the driver (main).     *)
(*                                                                         *)
(* Python str values are TLA+ strings; a character is a string of length   *)
(* one.  A Python float is an IEEE 754 binary64 value, held exactly and     *)
(* rounded as the hardware rounds.  A Python dict is the sequence of its   *)
(* <<key, value>> pairs in insertion order.                                *)
(***************************************************************************)
EXTENDS Integers, Sequences, FiniteSets, TLC

(***************************************************************************)
(* Bounds of the model.                                                    *)
(***************************************************************************)
MaxPages == 2      \* listing pages the modelled site can serve
MaxTarget == 3     \* largest target_count of a direct scrape_books call
MaxBatch == 2      \* largest batch of a direct convert_prices call
MaxClock == 1      \* second boundaries the wall clock may cross

(***************************************************************************)
(* Python str primitives.                                                  *)
(***************************************************************************)
\* Python values held in dicts: None, a str, a dict [dict |-> d], or a number (see below)
None == [none |-> TRUE]
Str(s) == [str |-> s]

Char(s, i) == SubSeq(s, i, i)

\* The({ F(x) : x \in {e} }) is F at the value of e, with e evaluated once
The(S) == CHOOSE v \in S : TRUE

LowerLetters == "abcdefghijklmnopqrstuvwxyz"
UpperLetters == "ABCDEFGHIJKLMNOPQRSTUVWXYZ"
Digits == "0123456789"
\* the ASCII characters str.strip() takes for whitespace: space, HT, LF, CR, FF, VT, FS,
\* GS, RS, US
Whitespace == {" ", "\t", "\n", "\r", "\f", "", "", "", "", ""}

\* index of character c in s, 0 when absent
IndexOf(c, s) ==
  IF \E i \in 1..Len(s) : Char(s, i) = c
  THEN CHOOSE i \in 1..Len(s) : Char(s, i) = c /\ \A j \in 1..(i - 1) : Char(s, j) # c
  ELSE 0

UpperChar(c) ==
  IF IndexOf(c, LowerLetters) > 0 THEN Char(UpperLetters, IndexOf(c, LowerLetters)) ELSE c

LowerChar(c) ==
  IF IndexOf(c, UpperLetters) > 0 THEN Char(LowerLetters, IndexOf(c, UpperLetters)) ELSE c

\* characters i..j of s in upper case, by halves
RECURSIVE UpperRange(_, _, _)
UpperRange(s, i, j) ==
  IF i > j THEN ""
  ELSE IF i = j THEN UpperChar(Char(s, i))
  ELSE The({ UpperRange(s, i, mid) \o UpperRange(s, mid + 1, j) : mid \in {(i + j) \div 2} })

\* str.upper()
Upper(s) == UpperRange(s, 1, Len(s))

RECURSIVE LowerRange(_, _, _)
LowerRange(s, i, j) ==
  IF i > j THEN ""
  ELSE IF i = j THEN LowerChar(Char(s, i))
  ELSE The({ LowerRange(s, i, mid) \o LowerRange(s, mid + 1, j) : mid \in {(i + j) \div 2} })

\* str.lower()
Lower(s) == LowerRange(s, 1, Len(s))

\* the characters int() and float() skip around a number in ASCII text: space, HT, LF,
\* CR, FF, VT
NumberSpace == {" ", "\t", "\n", "\r", "\f", ""}

\* s from its first to its last character outside W
StripOf(s, W) ==
  IF \A i \in 1..Len(s) : Char(s, i) \in W THEN ""
  ELSE SubSeq(s,
              CHOOSE i \in 1..Len(s) :
                Char(s, i) \notin W /\ \A j \in 1..(i - 1) : Char(s, j) \in W,
              CHOOSE i \in 1..Len(s) :
                Char(s, i) \notin W /\ \A j \in (i + 1)..Len(s) : Char(s, j) \in W)

\* str.strip()
Strip(s) == StripOf(s, Whitespace)

\* the text int() and float() parse
NumberText(s) == StripOf(s, NumberSpace)

\* characters i..j of s with every character c replaced by new, by halves
RECURSIVE ReplaceRange(_, _, _, _, _)
ReplaceRange(s, c, new, i, j) ==
  IF i > j THEN ""
  ELSE IF i = j THEN (IF Char(s, i) = c THEN new ELSE Char(s, i))
  ELSE The({ ReplaceRange(s, c, new, i, mid) \o ReplaceRange(s, c, new, mid + 1, j) :
             mid \in {(i + j) \div 2} })

\* left to right, the occurrences of old that do not overlap an earlier one
RECURSIVE ReplaceFrom(_, _, _, _)
ReplaceFrom(s, old, new, i) ==
  IF i > Len(s) THEN ""
  ELSE IF i + Len(old) - 1 <= Len(s) /\ SubSeq(s, i, i + Len(old) - 1) = old
       THEN new \o ReplaceFrom(s, old, new, i + Len(old))
       ELSE Char(s, i) \o ReplaceFrom(s, old, new, i + 1)

\* str.replace(old, new) for a non-empty old
Replace(s, old, new) ==
  IF Len(old) = 1 THEN ReplaceRange(s, old, new, 1, Len(s)) ELSE ReplaceFrom(s, old, new, 1)

IsDigit(c) == IndexOf(c, Digits) > 0

\* digits with single underscores allowed between digits (Python numeric literal body)
DigitGroup(s) ==
  /\ s # ""
  /\ IsDigit(Char(s, 1))
  /\ IsDigit(Char(s, Len(s)))
  /\ \A i \in 1..Len(s) : IsDigit(Char(s, i)) \/ Char(s, i) = "_"
  /\ \A i \in 1..(Len(s) - 1) : ~(Char(s, i) = "_" /\ Char(s, i + 1) = "_")

RECURSIVE DigitsValueFrom(_, _, _)
DigitsValueFrom(s, i, acc) ==
  IF i > Len(s) THEN acc
  ELSE IF Char(s, i) = "_" THEN DigitsValueFrom(s, i + 1, acc)
       ELSE DigitsValueFrom(s, i + 1, 10 * acc + IndexOf(Char(s, i), Digits) - 1)

\* value of a digit group (0 for the empty text)
DigitsValue(s) == DigitsValueFrom(s, 1, 0)

HasSign(s) == s # "" /\ Char(s, 1) \in {"+", "-"}
Unsigned(s) == IF HasSign(s) THEN SubSeq(s, 2, Len(s)) ELSE s
SignOf(s) == IF s # "" /\ Char(s, 1) = "-" THEN -1 ELSE 1

\* int(s) raises ValueError unless the stripped text is an optionally signed digit group
IntOk(s) == DigitGroup(Unsigned(NumberText(s)))

\* int(s) where IntOk(s)
PyInt(s) == SignOf(NumberText(s)) * DigitsValue(Unsigned(NumberText(s)))

RECURSIVE NatStr(_)
NatStr(k) == IF k < 10 THEN Char(Digits, k + 1) ELSE NatStr(k \div 10) \o Char(Digits, (k % 10) + 1)

RECURSIVE ZeroPad(_, _)
ZeroPad(s, w) == IF Len(s) >= w THEN s ELSE ZeroPad("0" \o s, w)

(***************************************************************************)
(* Natural numbers of any size: the sequence of the base-32768 digits      *)
(* ("limbs"), least significant first, empty for zero.                     *)
(***************************************************************************)
Base == 32768

Abs(x) == IF x < 0 THEN -x ELSE x
Max(a, b) == IF a >= b THEN a ELSE b
Min(a, b) == IF a <= b THEN a ELSE b

\* 2^0 .. 2^15
Pow2s == << 1, 2, 4, 8, 16, 32, 64, 128, 256, 512, 1024, 2048, 4096, 8192, 16384, 32768 >>

\* number of bits of a limb v >= 1
BitLen(v) == CHOOSE k \in 1..15 : Pow2s[k] <= v /\ v < Pow2s[k + 1]

Limb(a, i) == IF 1 <= i /\ i <= Len(a) THEN a[i] ELSE 0

\* a without its leading zero limbs
Trim(a) ==
  SubSeq(a, 1, CHOOSE k \in 0..Len(a) :
                 (k = 0 \/ a[k] # 0) /\ \A j \in (k + 1)..Len(a) : a[j] = 0)

\* the number n, 0 <= n < 2^31
BigOfInt(n) == Trim(<< n % Base, (n \div Base) % Base, n \div (Base * Base) >>)

\* -1, 0 or 1 as a < b, a = b or a > b
BigCmp(a, b) ==
  IF Len(a) # Len(b) THEN (IF Len(a) < Len(b) THEN -1 ELSE 1)
  ELSE IF \A i \in 1..Len(a) : a[i] = b[i] THEN 0
  ELSE The({ IF a[k] < b[k] THEN -1 ELSE 1 :
             k \in { CHOOSE i \in 1..Len(a) :
                       a[i] # b[i] /\ \A j \in (i + 1)..Len(a) : a[j] = b[j] } })

\* the carry into limb i of a + b
Carry(a, b, i) ==
  \E j \in 1..(i - 1) :
    /\ Limb(a, j) + Limb(b, j) >= Base
    /\ \A k \in (j + 1)..(i - 1) : Limb(a, k) + Limb(b, k) = Base - 1

\* a + b, of limb sequences that need not be trimmed
BigAdd(a, b) ==
  The({ Trim(s) :
        s \in { SubSeq([i \in 1..(Max(Len(a), Len(b)) + 1) |->
                          (Limb(a, i) + Limb(b, i) + (IF Carry(a, b, i) THEN 1 ELSE 0)) % Base],
                       1, Max(Len(a), Len(b)) + 1) } })

\* the borrow from limb i of a - b
Borrow(a, b, i) ==
  \E j \in 1..(i - 1) :
    /\ Limb(a, j) < Limb(b, j)
    /\ \A k \in (j + 1)..(i - 1) : Limb(a, k) = Limb(b, k)

\* a - b where a >= b
BigSub(a, b) ==
  The({ Trim(s) :
        s \in { SubSeq([i \in 1..Len(a) |->
                          (a[i] - Limb(b, i) - (IF Borrow(a, b, i) THEN 1 ELSE 0)) % Base],
                       1, Len(a)) } })

\* a * d for 0 <= d <= 2^15: the low halves of the limb products plus their high halves
BigMulSmall(a, d) ==
  The({ BigAdd(lo, hi) :
        lo \in { SubSeq([i \in 1..Len(a) |-> (a[i] * d) % Base], 1, Len(a)) },
        hi \in { <<0>> \o [i \in 1..Len(a) |-> (a[i] * d) \div Base] } })

\* the low (part = 0) or high (part = 1) halves of the limb products a[i] * b[k + 1 - i],
\* i <= n, added up
RECURSIVE ColumnSum(_, _, _, _, _)
ColumnSum(a, b, k, n, part) ==
  IF n < 1 THEN 0
  ELSE (IF part = 0 THEN (Limb(a, n) * Limb(b, k + 1 - n)) % Base
        ELSE (Limb(a, n) * Limb(b, k + 1 - n)) \div Base)
       + ColumnSum(a, b, k, n - 1, part)

\* a * b column by column, for a of at most 2^14 limbs
MulColumns(a, b) ==
  The({ The({ BigAdd(lo, hi) :
              lo \in { SubSeq([k \in 1..Len(t) |-> t[k] % Base], 1, Len(t)) },
              hi \in { <<0>> \o [k \in 1..Len(t) |-> t[k] \div Base] } }) :
        t \in { SubSeq([k \in 1..(Len(a) + Len(b)) |->
                          ColumnSum(a, b, k, Min(k, Len(a)), 0)
                            + ColumnSum(a, b, k - 1, Min(k - 1, Len(a)), 1)],
                       1, Len(a) + Len(b)) } })

BigMul(a, b) == IF Len(a) <= Len(b) THEN MulColumns(a, b) ELSE MulColumns(b, a)

\* a * 2^k
Shl(a, k) ==
  IF a = <<>> THEN <<>>
  ELSE [j \in 1..(k \div 15) |-> 0] \o BigMulSmall(a, Pow2s[(k % 15) + 1])

\* 10^k
RECURSIVE BigPow10(_)
BigPow10(k) ==
  IF k <= 0 THEN <<1>>
  ELSE IF k = 1 THEN <<10>>
  ELSE The({ The({ BigMulSmall(sq, IF k % 2 = 1 THEN 10 ELSE 1) : sq \in {BigMul(h, h)} }) :
             h \in {BigPow10(k \div 2)} })

Odd(a) == a # <<>> /\ a[1] % 2 = 1

\* the largest c in (est - 2)..est with c * q <= r
QuotientLimb(r, q, est) ==
  CHOOSE c \in Max(0, est - 2)..est :
    /\ BigCmp(BigMulSmall(q, c), r) <= 0
    /\ c = est \/ BigCmp(BigMulSmall(q, c + 1), r) > 0

\* long division of p by q, whose top limb is at least Base / 2: limb j of the quotient
\* and those below it, r being what is left of the limbs of p above j
RECURSIVE DivFrom(_, _, _, _)
DivFrom(p, q, j, r) ==
  IF j < 1 THEN [q |-> <<>>, r |-> r]
  ELSE The({ The({ The({ [q |-> rest.q \o <<d>>, r |-> rest.r] :
                         rest \in { DivFrom(p, q, j - 1, r2) :
                                    r2 \in { BigSub(r1, dq) : dq \in {BigMulSmall(q, d)} } } }) :
                   d \in { QuotientLimb(r1, q,
                             Min(Base - 1, (Limb(r1, Len(q) + 1) * Base + Limb(r1, Len(q)))
                                             \div q[Len(q)])) } }) :
             r1 \in { Trim(t) : t \in {<<p[j]>> \o r} } })

\* floor(P / Q) for P >= 0, Q > 0, and half = -1, 0, 1 as the rest of the division is
\* below, at or above Q / 2
BigDivMod(P, Q) ==
  The({ IF BigCmp(p, q) < 0
        THEN [q |-> <<>>, half |-> BigCmp(BigMulSmall(p, 2), q)]
        ELSE The({ [q |-> Trim(d.q), half |-> BigCmp(BigMulSmall(d.r, 2), q)] :
                   d \in { DivFrom(p, q, Len(p) - Len(q) + 1, hd) :
                           hd \in {SubSeq(p, Len(p) - Len(q) + 2, Len(p))} } }) :
        p \in {Shl(P, 15 - BitLen(Q[Len(Q)]))}, q \in {Shl(Q, 15 - BitLen(Q[Len(Q)]))} })

\* the quotient rounded to the nearest integer, ties to the even one
RoundHalfEven(r) ==
  IF r.half > 0 \/ (r.half = 0 /\ Odd(r.q)) THEN BigAdd(r.q, <<1>>) ELSE r.q

\* floor(log2(P / Q)) for P, Q > 0
FloorLog2(P, Q) ==
  The({ IF d >= 0
        THEN The({ IF BigCmp(P, t) >= 0 THEN d ELSE d - 1 : t \in {Shl(Q, Max(d, 0))} })
        ELSE The({ IF BigCmp(t, Q) >= 0 THEN d ELSE d - 1 : t \in {Shl(P, Max(-d, 0))} }) :
        d \in {15 * (Len(P) - Len(Q)) + BitLen(P[Len(P)]) - BitLen(Q[Len(Q)])} })

\* the number written by the decimal digits s
RECURSIVE BigOfDigits(_)
BigOfDigits(s) ==
  IF Len(s) <= 4 THEN BigOfInt(DigitsValue(s))
  ELSE The({ The({ BigAdd(hs, lo) : hs \in {BigMul(hi, sc)} }) :
             hi \in { BigOfDigits(t) : t \in {SubSeq(s, 1, Len(s) - Len(s) \div 2)} },
             lo \in { BigOfDigits(t) : t \in {SubSeq(s, Len(s) - Len(s) \div 2 + 1, Len(s))} },
             sc \in { BigPow10(Len(s) \div 2) } })

\* the decimal digits of a
RECURSIVE BigDigits(_)
BigDigits(a) ==
  IF Len(a) <= 1 THEN NatStr(Limb(a, 1))
  ELSE The({ The({ BigDigits(d.q) \o ZeroPad(NatStr(Limb(r, 1)), 4) :
                   r \in { BigSub(a, m) : m \in {BigMulSmall(d.q, 10000)} } }) :
             d \in {BigDivMod(a, <<10000>>)} })

(***************************************************************************)
(* Python numbers.  A float is an IEEE 754 binary64 value: a finite one is *)
(* [neg, m, e], the value (-1)^neg * m * 2^e with m < 2^53 and             *)
(* -1074 <= e <= 971, m >= 2^52 unless e = -1074; an infinity is           *)
(* [inf |-> neg]; not-a-number is [nan |-> TRUE].  An int is [int |-> n].  *)
(***************************************************************************)
Zero(neg) == [neg |-> neg, m |-> <<>>, e |-> -1074]
Inf(neg) == [inf |-> neg]
NaN == [nan |-> TRUE]
PyIntOf(n) == [int |-> n]

IsInt(v) == "int" \in DOMAIN v
IsFinite(v) == "m" \in DOMAIN v
IsInf(v) == "inf" \in DOMAIN v
IsNaN(v) == "nan" \in DOMAIN v
IsZero(v) == IsFinite(v) /\ v.m = <<>>
IsNeg(v) == IF IsFinite(v) THEN v.neg ELSE IsInf(v) /\ v.inf

Two52 == Shl(<<1>>, 52)
Two53 == Shl(<<1>>, 53)

Pack(neg, m, e) ==
  IF m = <<>> THEN Zero(neg)
  ELSE IF BigCmp(m, Two53) = 0
       THEN (IF e + 1 > 971 THEN Inf(neg) ELSE [neg |-> neg, m |-> Two52, e |-> e + 1])
       ELSE [neg |-> neg, m |-> m, e |-> e]

\* floor-and-rest of P/Q * 2^x in units of 2^L
DivAt(P, Q, x, L) ==
  IF x >= L THEN The({ BigDivMod(p, Q) : p \in {Shl(P, Max(x - L, 0))} })
  ELSE The({ BigDivMod(P, q) : q \in {Shl(Q, Max(L - x, 0))} })

\* the double nearest to (-1)^neg * P/Q * 2^x, ties to even; infinity past the largest one
RoundToDouble(neg, P, Q, x) ==
  IF P = <<>> THEN Zero(neg)
  ELSE The({ IF E > 1023 THEN Inf(neg)
             ELSE IF E < -1080 THEN Zero(neg)
             ELSE The({ Pack(neg, m, Max(E - 52, -1074)) :
                        m \in { RoundHalfEven(r) :
                                r \in {DivAt(P, Q, x, Max(E - 52, -1074))} } }) :
             E \in { lg + x : lg \in {FloorLog2(P, Q)} } })

\* the double nearest to (-1)^neg * D * 10^k
Decimal(neg, D, k) ==
  The({ RoundToDouble(neg, p, q, 0) :
        p \in { BigMul(D, t) : t \in {BigPow10(Max(k, 0))} }, q \in {BigPow10(Max(-k, 0))} })

\* float(v) of a number
ToFloat(v) ==
  IF IsInt(v)
  THEN The({ RoundToDouble(v.int < 0, a, <<1>>, 0) : a \in {BigOfInt(Abs(v.int))} })
  ELSE v

MulFloat(a, b) ==
  IF IsNaN(a) \/ IsNaN(b) THEN NaN
  ELSE IF IsInf(a) \/ IsInf(b)
       THEN (IF IsZero(a) \/ IsZero(b) THEN NaN ELSE Inf(IsNeg(a) # IsNeg(b)))
       ELSE The({ RoundToDouble(a.neg # b.neg, p, <<1>>, a.e + b.e) : p \in {BigMul(a.m, b.m)} })

\* a * b of Python numbers
Mul(a, b) ==
  IF IsInt(a) /\ IsInt(b) THEN PyIntOf(a.int * b.int)
  ELSE The({ MulFloat(x, y) : x \in {ToFloat(a)}, y \in {ToFloat(b)} })

\* round(x, 2): the decimal with two fractional digits nearest to the exact value of x,
\* ties to even, read back as a double; an int, an infinity and nan round to themselves
Round2(x) ==
  IF ~IsFinite(x) \/ x.m = <<>> \/ x.e >= 0 THEN x
  ELSE The({ Decimal(x.neg, n, -2) :
             n \in { RoundHalfEven(r) :
                     r \in { DivAt(p, <<1>>, x.e, 0) : p \in {BigMulSmall(x.m, 100)} } } })

\* m * 2^e / 10^j as the fraction p / q
Scaled(m, e, j) ==
  The({ [p |-> BigMul(sp, tp), q |-> BigMul(sq, tq)] :
        sp \in {Shl(m, Max(e, 0))}, tp \in {BigPow10(Max(-j, 0))},
        sq \in {Shl(<<1>>, Max(-e, 0))}, tq \in {BigPow10(Max(j, 0))} })

\* floor(log10(m * 2^e)), searched from the estimate t
RECURSIVE Log10From(_, _, _)
Log10From(m, e, t) ==
  The({ IF BigCmp(s.p, s.q) < 0 THEN Log10From(m, e, t - 1)
        ELSE The({ IF BigCmp(s.p, q10) >= 0 THEN Log10From(m, e, t + 1) ELSE t :
                   q10 \in {BigMulSmall(s.q, 10)} }) :
        s \in {Scaled(m, e, t)} })

Log10(x) ==
  The({ Log10From(x.m, x.e, (lg * 30103) \div 100000) :
        lg \in { l + x.e : l \in {FloorLog2(x.m, <<1>>)} } })

\* the shortest decimal D * 10^j that float() reads back as x, the one nearest to x among
\* those: of the two n-digit decimals around x the nearer is tried first
RECURSIVE Shortest(_, _, _)
Shortest(x, t, n) ==
  The({ IF Decimal(x.neg, c.near, t - n + 1) = x THEN [D |-> c.near, j |-> t - n + 1]
        ELSE IF Decimal(x.neg, c.far, t - n + 1) = x THEN [D |-> c.far, j |-> t - n + 1]
        ELSE Shortest(x, t, n + 1) :
        c \in { IF r.half > 0 \/ (r.half = 0 /\ Odd(r.q))
                THEN [near |-> BigAdd(r.q, <<1>>), far |-> r.q]
                ELSE [near |-> r.q, far |-> BigAdd(r.q, <<1>>)] :
                r \in { BigDivMod(s.p, s.q) : s \in {Scaled(x.m, x.e, t - n + 1)} } } })

RECURSIVE Repeat(_, _)
Repeat(c, k) == IF k <= 0 THEN "" ELSE c \o Repeat(c, k - 1)

\* s without its trailing zeros
StripZeros(s) ==
  SubSeq(s, 1, CHOOSE k \in 0..Len(s) :
                 (k = 0 \/ Char(s, k) # "0") /\ \A j \in (k + 1)..Len(s) : Char(s, j) = "0")

\* repr of the digits ds with the decimal point after the first decpt of them: exponent
\* form when decpt > 16 or decpt < -3
ReprDigits(ds, decpt) ==
  IF decpt > 16 \/ decpt < -3
  THEN Char(ds, 1) \o (IF Len(ds) > 1 THEN "." \o SubSeq(ds, 2, Len(ds)) ELSE "")
         \o "e" \o (IF decpt - 1 < 0 THEN "-" ELSE "+") \o ZeroPad(NatStr(Abs(decpt - 1)), 2)
  ELSE IF decpt <= 0 THEN "0." \o Repeat("0", -decpt) \o ds
  ELSE IF Len(ds) <= decpt THEN ds \o Repeat("0", decpt - Len(ds)) \o ".0"
  ELSE SubSeq(ds, 1, decpt) \o "." \o SubSeq(ds, decpt + 1, Len(ds))

\* str(n) of an int
IntStr(n) == (IF n < 0 THEN "-" ELSE "") \o NatStr(Abs(n))

\* str(x) of a float: the repr of its shortest decimal sh.D * 10^sh.j
FloatStr(x) ==
  IF IsNaN(x) THEN "nan"
  ELSE IF IsInf(x) THEN (IF x.inf THEN "-inf" ELSE "inf")
  ELSE IF x.m = <<>> THEN (IF x.neg THEN "-0.0" ELSE "0.0")
  ELSE The({ The({ (IF x.neg THEN "-" ELSE "")
                     \o The({ ReprDigits(sig, Len(ds) + sh.j) : sig \in {StripZeros(ds)} }) :
                   ds \in {BigDigits(sh.D)} }) :
             sh \in { Shortest(x, t, 1) : t \in {Log10(x)} } })

\* str(v) of a Python value
PyStr(v) ==
  IF "str" \in DOMAIN v THEN v.str
  ELSE IF "none" \in DOMAIN v THEN "None"
  ELSE IF IsInt(v) THEN IntStr(v.int)
  ELSE FloatStr(v)

(***************************************************************************)
(* float(text)                                                             *)
(***************************************************************************)
\* index of the exponent marker of u, 0 when there is none
ExpAt(u) ==
  IF \E i \in 1..Len(u) : Char(u, i) \in {"e", "E"}
  THEN CHOOSE i \in 1..Len(u) :
         Char(u, i) \in {"e", "E"} /\ \A j \in 1..(i - 1) : Char(u, j) \notin {"e", "E"}
  ELSE 0

Mantissa(u) == IF ExpAt(u) = 0 THEN u ELSE SubSeq(u, 1, ExpAt(u) - 1)
Exponent(u) == IF ExpAt(u) = 0 THEN "" ELSE SubSeq(u, ExpAt(u) + 1, Len(u))

IntPart(u) == IF IndexOf(".", u) = 0 THEN u ELSE SubSeq(u, 1, IndexOf(".", u) - 1)
FracPart(u) == IF IndexOf(".", u) = 0 THEN "" ELSE SubSeq(u, IndexOf(".", u) + 1, Len(u))

\* [digits] [. [digits]] [e [sign] digits] with a digit before the exponent
NumberOk(u) ==
  \E mt \in {Mantissa(u)}, ex \in {Exponent(u)} :
    \E ip \in {IntPart(mt)}, fp \in {FracPart(mt)} :
      /\ ip = "" \/ DigitGroup(ip)
      /\ fp = "" \/ DigitGroup(fp)
      /\ ip # "" \/ fp # ""
      /\ ExpAt(u) = 0 \/ DigitGroup(Unsigned(ex))

\* float(s) raises ValueError unless the stripped text is an optionally signed number,
\* inf, infinity or nan (in any letter case)
FloatOk(s) ==
  \E u \in {Unsigned(NumberText(s))} : Lower(u) \in {"inf", "infinity", "nan"} \/ NumberOk(u)

\* s without its leading zeros
LeadStrip(s) ==
  SubSeq(s, CHOOSE k \in 1..(Len(s) + 1) :
              (k = Len(s) + 1 \/ Char(s, k) # "0") /\ \A j \in 1..(k - 1) : Char(s, j) = "0",
         Len(s))

\* the value of the exponent text ex, cut off at 100000, far past the range of the doubles
ExpValue(ex) ==
  IF ex = "" THEN 0
  ELSE The({ SignOf(ex) * (IF Len(sig) > 6 THEN 100000 ELSE Min(DigitsValue(sig), 100000)) :
             sig \in { LeadStrip(d) : d \in {Replace(Unsigned(ex), "_", "")} } })

\* the double nearest to (-1)^neg * ip.fp * 10^ex
FloatValue(neg, ip, fp, ex) ==
  The({ The({ IF sig = "" THEN Zero(neg)
              ELSE IF Len(sig) + ex - Len(fd) > 310 THEN Inf(neg)
              ELSE IF Len(sig) + ex - Len(fd) < -330 THEN Zero(neg)
              ELSE The({ Decimal(neg, D, ex - Len(fd)) : D \in {BigOfDigits(sig)} }) :
              sig \in { LeadStrip(ds) : ds \in {id \o fd} } }) :
        id \in {Replace(ip, "_", "")}, fd \in {Replace(fp, "_", "")} })

\* float(s) where FloatOk(s)
PyFloat(s) ==
  The({ IF Lower(u) = "nan" THEN NaN
        ELSE IF Lower(u) \in {"inf", "infinity"} THEN Inf(HasSign(t) /\ Char(t, 1) = "-")
        ELSE The({ The({ FloatValue(HasSign(t) /\ Char(t, 1) = "-", ip, fp, ex) :
                         ip \in {IntPart(mt)}, fp \in {FracPart(mt)},
                         ex \in { ExpValue(et) : et \in {Exponent(u)} } }) :
                   mt \in {Mantissa(u)} }) :
        t \in {NumberText(s)}, u \in { Unsigned(st) : st \in {NumberText(s)} } })

\* x >= 0 of a float
NonNegative(x) == ~IsNaN(x) /\ (IsZero(x) \/ ~IsNeg(x))

(***************************************************************************)
(* Python dict, insertion ordered.                                         *)
(***************************************************************************)
Keys(d) == [i \in 1..Len(d) |-> d[i][1]]
HasKey(d, k) == \E i \in 1..Len(d) : d[i][1] = k
Get(d, k) == d[CHOOSE i \in 1..Len(d) : d[i][1] = k][2]

\* d[k] = v: an existing key keeps its position and takes the new value
DictSet(d, k, v) ==
  IF HasKey(d, k)
  THEN [i \in 1..Len(d) |-> IF d[i][1] = k THEN <<k, v>> ELSE d[i]]
  ELSE Append(d, <<k, v>>)

(***************************************************************************)
(* Program constants.                                                      *)
(***************************************************************************)
DefaultCount == 10
FallbackRate == PyFloat("180.0")
DefaultCurrency == "KES"
\* the currency symbol of the listing prices, U+00A3 POUND SIGN, written # in this module
PoundSign == "#"

(***************************************************************************)
(* State.                                                                  *)
(***************************************************************************)
VARIABLES
  pc,               \* position of the single thread of control
  entered,          \* lines read from the console so far, in order
  num_products,     \* main: requested count
  target_currency,  \* main / get_exchange_rate / convert_prices: currency code
  target_count,     \* scrape_books: parameter
  products,         \* the list of dicts built by scrape_books and mutated by convert_prices
  page,             \* scrape_books: page cursor
  books,            \* scrape_books: entries of the current page not yet visited by the for loop
  fetched,          \* listing-page requests made so far: [page, status, books]; status is
                    \* "ok" or the text of the exception raised
  rate,             \* value returned by get_exchange_rate
  rate_log,         \* responses received from the rate service so far: [status, body]
  clock,            \* wall clock, in whole seconds
  conv_i,           \* convert_prices: index of the next product of the for loop
  file,             \* converted_prices.csv, line by line
  shown,            \* the frame df[cols] printed by display_table: column names, then rows
  console,          \* what print() and input() have written to standard output, call by
                    \* call; the frame printed by display_table is in shown
  trace,            \* functions main has called so far, in order
  error             \* uncaught exception that ended the run, "" when none

vars == << pc, entered, num_products, target_currency, target_count, products, page, books,
           fetched, rate, rate_log, clock, conv_i, file, shown, console, trace, error >>

mainVars == << entered, num_products, target_currency, trace >>
scrapeVars == << target_count, products, page, books, fetched >>
rateVars == << rate, rate_log >>
sinkVars == << file, shown >>

\* what print(text) writes
Line(text) == text \o "\n"

(***************************************************************************)
(* scrape_books                                                            *)
(***************************************************************************)
\* str(e) of the RequestException a request ends with
FetchErrors == {"ConnectionError", "HTTPError", "Timeout"}

\* price_text of a .product_pod entry, as float() receives it
PriceText(entry) == Replace(Strip(entry.price_text), PoundSign, "")

\* {"name": name, "price_gbp": price_gbp}
Product(name, price_gbp) == << <<"name", Str(name)>>, <<"price_gbp", price_gbp>> >>

\* the dict appended for an entry whose price text parses
ProductOf(entry) == Product(entry.title, PyFloat(PriceText(entry)))

\* variant of the loop guard: one more round when the count is just reached
LoopGuardInclusive == Len(products) <= target_count

\* while len(products) < target_count
LoopGuard == Len(products) < target_count

\* variant of the failure handling: back to the loop guard instead of leaving the loop
RetrySamePage == "scrape_while"

\* except RequestException: print, sleep, break -- the loop is left and products returned
AfterFetchError == "scrape_return"

\* variant of the bad-price handling: the error is caught and the batch returned
ReturnCollected == "scrape_return"

\* float() raises ValueError; `except requests.exceptions.RequestException` does not catch
\* it, so it leaves scrape_books and main
AfterBadPrice == "raised"

ScrapeWhile ==
  /\ pc = "scrape_while"
  /\ pc' = IF LoopGuard THEN "scrape_fetch" ELSE "scrape_return"
  /\ UNCHANGED << mainVars, scrapeVars, rateVars, sinkVars, clock, conv_i, console, error >>

\* requests.get succeeds, raise_for_status passes, select(".product_pod") yields the entries
FetchOk(pages) ==
  /\ pc = "scrape_fetch"
  /\ page <= MaxPages
  /\ \E b \in pages :
       /\ fetched' = Append(fetched, [page |-> page, status |-> "ok", books |-> b])
       /\ books' = b
  /\ pc' = "scrape_for"
  /\ UNCHANGED << mainVars, target_count, products, page, rateVars, sinkVars, clock, conv_i,
                  console, error >>

\* requests.get or raise_for_status raises a RequestException: print, sleep, break
FetchFail(errors) ==
  /\ pc = "scrape_fetch"
  /\ page <= MaxPages
  /\ \E e \in errors :
       /\ fetched' = Append(fetched, [page |-> page, status |-> e, books |-> <<>>])
       /\ console' = Append(console, Line("Error fetching page " \o IntStr(page) \o ": " \o e))
  /\ pc' = AfterFetchError
  /\ UNCHANGED << mainVars, target_count, products, page, books, rateVars, sinkVars, clock,
                  conv_i, error >>

\* variant of the break test: strict comparison
BreakWhenOver(count, target) == IF count > target THEN "scrape_next" ELSE "scrape_for"

\* if len(products) >= target_count: break
AfterAppend(count, target) == IF count >= target THEN "scrape_next" ELSE "scrape_for"

\* one iteration of `for book in books` whose price text parses; name, price_text and
\* price_gbp are the locals of the loop body
ForAppend ==
  /\ pc = "scrape_for"
  /\ books # <<>>
  /\ \E name \in {Head(books).title}, price_text \in {Strip(Head(books).price_text)} :
       \E cleaned \in {Replace(price_text, PoundSign, "")} :
         /\ FloatOk(cleaned)
         /\ \E price_gbp \in {PyFloat(cleaned)} :
              products' = Append(products, Product(name, price_gbp))
  /\ books' = Tail(books)
  /\ pc' = AfterAppend(Len(products'), target_count)
  /\ UNCHANGED << mainVars, target_count, page, fetched, rateVars, sinkVars, clock, conv_i,
                  console, error >>

\* float() raises ValueError, which `except RequestException` does not catch
ForRaise ==
  /\ pc = "scrape_for"
  /\ books # <<>>
  /\ \E price_text \in {Strip(Head(books).price_text)} :
       \E cleaned \in {Replace(price_text, PoundSign, "")} : ~FloatOk(cleaned)
  /\ pc' = AfterBadPrice
  /\ error' = "ValueError"
  /\ UNCHANGED << mainVars, scrapeVars, rateVars, sinkVars, clock, conv_i, console >>

\* the for loop is exhausted
ForEnd ==
  /\ pc = "scrape_for"
  /\ books = <<>>
  /\ pc' = "scrape_next"
  /\ UNCHANGED << mainVars, scrapeVars, rateVars, sinkVars, clock, conv_i, console, error >>

\* page += 1
NextPage ==
  /\ pc = "scrape_next"
  /\ page' = page + 1
  /\ books' = <<>>
  /\ pc' = "scrape_while"
  /\ UNCHANGED << mainVars, target_count, products, fetched, rateVars, sinkVars, clock,
                  conv_i, console, error >>

(***************************************************************************)
(* get_exchange_rate                                                       *)
(***************************************************************************)
\* str(e) of the exception a request or the decoding of its body ends with
RateErrors == {"ConnectionError", "HTTPError", "Timeout", "JSONDecodeError"}

\* variant of the lookup: the code is used as entered
RateLookupExact(rates, currency) ==
  IF HasKey(rates, currency) THEN Get(rates, currency) ELSE None

\* data['rates'].get(target_currency.upper(), None)
RateLookup(rates, currency) ==
  IF HasKey(rates, Upper(currency)) THEN Get(rates, Upper(currency)) ELSE None

\* response r gives a rate for the code: the request went through, the body has a rate
\* table, and the lookup in it is not None
RateFound(r, currency) ==
  /\ r.status = "ok"
  /\ HasKey(r.body, "rates")
  /\ Get(r.body, "rates") # None
  /\ RateLookup(Get(r.body, "rates").dict, currency) # None

\* str(e) of the exception caught otherwise: the request's or the JSON decoder's own, the
\* KeyError of data['rates'], the AttributeError of None.get, or the ValueError of line 53
RateFailure(r, currency) ==
  IF r.status # "ok" THEN r.status
  ELSE IF ~HasKey(r.body, "rates") THEN "'rates'"
  ELSE IF Get(r.body, "rates") = None THEN "'NoneType' object has no attribute 'get'"
  ELSE "Currency '" \o currency \o "' not supported."

\* the value get_exchange_rate returns on response r
RateResult(r, currency) ==
  IF RateFound(r, currency)
  THEN RateLookup(Get(r.body, "rates").dict, currency)
  ELSE FallbackRate

\* the whole function: one request, then the table entry or the fallback with a message
RateRequest(responses) ==
  /\ pc = "rate_call"
  /\ \E r \in responses :
       /\ rate_log' = Append(rate_log, r)
       /\ rate' = RateResult(r, target_currency)
       /\ console' = IF RateFound(r, target_currency)
                     THEN console
                     ELSE Append(console, Line("Failed to fetch exchange rate ("
                                                 \o RateFailure(r, target_currency)
                                                 \o "), using fallback rate."))
  /\ pc' = "rate_return"
  /\ UNCHANGED << mainVars, scrapeVars, sinkVars, clock, conv_i, error >>

(***************************************************************************)
(* convert_prices                                                          *)
(***************************************************************************)
\* datetime.now().strftime("%Y-%m-%d %H:%M:%S") at `now` seconds past 2024-01-01 00:00:00
StrfTime(now) == "2024-01-01 00:00:" \o ZeroPad(NatStr(now), 2)

TargetKey(currency) == "price_" \o Lower(currency)

\* the two assignments of the loop body
Converted(product, r, currency, now) ==
  DictSet(DictSet(product, TargetKey(currency), Round2(Mul(Get(product, "price_gbp"), r))),
          "timestamp", Str(StrfTime(now)))

\* the wall clock crosses a second boundary.  Only convert_prices reads the clock, so the
\* ticks that matter are those from its call on.
Tick ==
  /\ pc = "convert_for"
  /\ clock < MaxClock
  /\ clock' = clock + 1
  /\ UNCHANGED << pc, mainVars, scrapeVars, rateVars, sinkVars, conv_i, console, error >>

ConvertStep ==
  /\ pc = "convert_for"
  /\ conv_i <= Len(products)
  /\ products' = [products EXCEPT ![conv_i] = Converted(@, rate, target_currency, clock)]
  /\ conv_i' = conv_i + 1
  /\ UNCHANGED << pc, mainVars, target_count, page, books, fetched, rateVars, sinkVars, clock,
                  console, error >>

ConvertEnd ==
  /\ pc = "convert_for"
  /\ conv_i > Len(products)
  /\ pc' = "convert_return"
  /\ UNCHANGED << mainVars, scrapeVars, rateVars, sinkVars, clock, conv_i, console, error >>

(***************************************************************************)
(* save_to_csv                                                             *)
(***************************************************************************)
\* the text csv.writer writes for a value: "" for None, str() otherwise
CellStr(v) == IF v = None THEN "" ELSE PyStr(v)

\* QUOTE_MINIMAL: a field holding the delimiter, the quote character or a character of the
\* line terminator is quoted, with its quote characters doubled
CsvField(s) ==
  IF \E i \in 1..Len(s) : Char(s, i) \in {",", "\"", "\r", "\n"}
  THEN "\"" \o Replace(s, "\"", "\"\"") \o "\""
  ELSE s

\* the fields from the j-th on, comma separated; a row whose only field is empty is
\* written as "" in quotes, so that its line is not blank
RECURSIVE JoinFrom(_, _)
JoinFrom(cells, j) ==
  IF j > Len(cells) THEN ""
  ELSE IF Len(cells) = 1 /\ cells[1] = "" THEN "\"\""
  ELSE (IF j > 1 THEN "," ELSE "") \o CsvField(cells[j]) \o JoinFrom(cells, j + 1)

\* one line of the file: the fields, comma separated, and the terminator "\r\n"
CsvLine(cells) == JoinFrom(cells, 1) \o "\r\n"

\* DictWriter._dict_to_list: restval "" for a missing key
RowOf(d, keys) ==
  [j \in 1..Len(keys) |-> IF HasKey(d, keys[j]) THEN CellStr(Get(d, keys[j])) ELSE ""]

\* DictWriter raises ValueError on a dict with a key outside fieldnames
ExtraKeys(d, keys) == \E i \in 1..Len(d) : \A j \in 1..Len(keys) : keys[j] # d[i][1]

\* number of leading dicts that DictWriter accepts
RECURSIVE Accepted(_, _)
Accepted(ps, keys) ==
  IF ps = <<>> \/ ExtraKeys(Head(ps), keys) THEN 0 ELSE 1 + Accepted(Tail(ps), keys)

\* the lines writeheader and writerows put into the file
CsvRows(ps) ==
  The({ <<CsvLine(keys)>> \o [i \in 1..Accepted(ps, keys) |-> CsvLine(RowOf(ps[i], keys))] :
        keys \in {Keys(ps[1])} })

\* main calls save_to_csv and the file is written
SaveOk ==
  /\ pc = "convert_return"
  /\ products # <<>>
  /\ Accepted(products, Keys(products[1])) = Len(products)
  /\ file' = CsvRows(products)
  /\ trace' = Append(trace, "save_to_csv")
  /\ pc' = "save_return"
  /\ UNCHANGED << entered, num_products, target_currency, scrapeVars, rateVars, shown, clock,
                  conv_i, console, error >>

\* main calls save_to_csv and it raises: products[0] on an empty list, open() on a path that
\* cannot be written, or DictWriter on a dict with extra keys (the rows before it are written)
SaveRaise ==
  /\ pc = "convert_return"
  /\ \/ /\ products = <<>>
        /\ error' = "IndexError"
        /\ file' = file
     \/ /\ products # <<>>
        /\ error' = "OSError"
        /\ file' = file
     \/ /\ products # <<>>
        /\ Accepted(products, Keys(products[1])) < Len(products)
        /\ error' = "ValueError"
        /\ file' = CsvRows(products)
  /\ trace' = Append(trace, "save_to_csv")
  /\ pc' = "raised"
  /\ UNCHANGED << entered, num_products, target_currency, scrapeVars, rateVars, shown, clock,
                  conv_i, console >>

(***************************************************************************)
(* display_table, plot_prices and main                                     *)
(***************************************************************************)
\* df[cols] of display_table
TableRows(ps, currency) ==
  LET cols == << "name", "price_gbp", TargetKey(currency), "timestamp" >> IN
  <<cols>> \o [i \in 1..Len(ps) |-> [j \in 1..4 |-> Get(ps[i], cols[j])]]

\* variant of the count validation: no lower limit
CountOfAnyInt(line) == IF IntOk(line) THEN PyInt(line) ELSE DefaultCount

\* the count main passes on for a console line
CountOf(line) == IF IntOk(line) /\ PyInt(line) >= 1 THEN PyInt(line) ELSE DefaultCount

\* the currency main passes on for a console line
CurrencyOf(line) == IF Upper(Strip(line)) = "" THEN DefaultCurrency ELSE Upper(Strip(line))

\* variant of the opt-in test: anything but n
PlotUnlessNo(line) == Lower(Strip(line)) # "n"

\* plot_choice == 'y' after strip().lower()
PlotChosen(line) == Lower(Strip(line)) = "y"

\* the banner, then the count is read
MainReadCount(lines) ==
  /\ pc = "main_count"
  /\ \E line \in lines :
       /\ entered' = Append(entered, line)
       /\ num_products' = CountOf(line)
       /\ console' = console \o << Line("=== Price Scraper + Currency Converter ==="),
                                   "Enter number of products to scrape (min 10): " >>
                       \o (IF IntOk(line) /\ PyInt(line) >= 1
                           THEN <<>>
                           ELSE << Line("Invalid input. Defaulting to 10 products.") >>)
  /\ pc' = "main_currency"
  /\ UNCHANGED << target_currency, trace, scrapeVars, rateVars, sinkVars, clock, conv_i, error >>

MainReadCurrency(lines) ==
  /\ pc = "main_currency"
  /\ \E line \in lines :
       /\ entered' = Append(entered, line)
       /\ target_currency' = CurrencyOf(line)
       /\ console' = console \o << "Enter target currency code (e.g., KES, USD, EUR): " >>
                       \o (IF Upper(Strip(line)) = ""
                           THEN << Line("No input provided. Defaulting to KES.") >>
                           ELSE <<>>)
  /\ pc' = "main_scrape"
  /\ UNCHANGED << num_products, trace, scrapeVars, rateVars, sinkVars, clock, conv_i, error >>

\* print, then products = scrape_books(num_products)
MainCallScrape ==
  /\ pc = "main_scrape"
  /\ console' = Append(console, Line("Scraping product prices..."))
  /\ trace' = Append(trace, "scrape_books")
  /\ target_count' = num_products
  /\ products' = <<>>
  /\ page' = 1
  /\ books' = <<>>
  /\ pc' = "scrape_while"
  /\ UNCHANGED << entered, num_products, target_currency, fetched, rateVars, sinkVars, clock,
                  conv_i, error >>

\* if not products: print, return
MainNoProducts ==
  /\ pc = "scrape_return"
  /\ products = <<>>
  /\ console' = Append(console, Line("No products found."))
  /\ pc' = "done"
  /\ UNCHANGED << mainVars, scrapeVars, rateVars, sinkVars, clock, conv_i, error >>

\* print, then rate = get_exchange_rate(target_currency)
MainCallRate ==
  /\ pc = "scrape_return"
  /\ products # <<>>
  /\ console' = Append(console,
                        Line("Fetching exchange rate GBP to " \o target_currency \o "..."))
  /\ trace' = Append(trace, "get_exchange_rate")
  /\ pc' = "rate_call"
  /\ UNCHANGED << entered, num_products, target_currency, scrapeVars, rateVars, sinkVars,
                  clock, conv_i, error >>

\* print the rate, then products = convert_prices(products, rate, target_currency)
MainCallConvert ==
  /\ pc = "rate_return"
  /\ console' = Append(console, Line("Exchange rate: 1 GBP = " \o PyStr(rate) \o " "
                                       \o target_currency))
  /\ trace' = Append(trace, "convert_prices")
  /\ conv_i' = 1
  /\ pc' = "convert_for"
  /\ UNCHANGED << entered, num_products, target_currency, scrapeVars, rateVars, sinkVars,
                  clock, error >>

\* df = display_table(products, target_currency)
MainDisplay ==
  /\ pc = "save_return"
  /\ trace' = Append(trace, "display_table")
  /\ shown' = TableRows(products, target_currency)
  /\ console' = Append(console, Line("\nProduct Prices (GBP to " \o Upper(target_currency)
                                       \o "):\n"))
  /\ pc' = "main_plot"
  /\ UNCHANGED << entered, num_products, target_currency, scrapeVars, rateVars, file, clock,
                  conv_i, error >>

MainReadPlot(lines) ==
  /\ pc = "main_plot"
  /\ \E line \in lines :
       /\ entered' = Append(entered, line)
       /\ pc' = IF PlotChosen(line) THEN "plot" ELSE "done"
  /\ console' = Append(console, "Would you like to see a bar chart? (y/n): ")
  /\ UNCHANGED << num_products, target_currency, trace, scrapeVars, rateVars, sinkVars, clock,
                  conv_i, error >>

\* plot_prices(df, target_currency)
MainPlot ==
  /\ pc = "plot"
  /\ trace' = Append(trace, "plot_prices")
  /\ pc' = "done"
  /\ UNCHANGED << entered, num_products, target_currency, scrapeVars, rateVars, sinkVars,
                  clock, conv_i, console, error >>

(***************************************************************************)
(* Inputs of the model: console lines, listing pages, rate-service         *)
(* responses, batches.                                                     *)
(***************************************************************************)
BookA == [title |-> "Book A", price_text |-> "#51.77"]
BookB == [title |-> "Book B", price_text |-> " #0.05 "]
Malformed == [title |-> "Book C", price_text |-> "#N/A"]

\* an entry as spec section 3 requires its record to be: named, priced, not negative
WellFormed(entry) ==
  /\ entry.title # ""
  /\ FloatOk(PriceText(entry))
  /\ NonNegative(PyFloat(PriceText(entry)))

ScrapePages ==
  { <<>>, <<BookA>>, <<BookA, BookB>>, <<BookB, BookA, BookB>>, <<BookA, Malformed>>,
    <<[title |-> "Book D", price_text |-> "#-1.50"]>>,
    <<[title |-> "", price_text |-> "#10.00"]>> }

MainPages == { <<>>, <<BookA, BookB>>, <<BookB, Malformed>> }

CountLines == {"2", "\f3 ", "0", "-1", "abc", ""}
CurrencyLines == {"", "\fusd ", "GBP"}
PlotLines == {"y", "\fY ", "n", ""}

RateTable ==
  << <<"USD", PyFloat("1.27")>>, <<"GBP", PyIntOf(1)>>, <<"KES", PyFloat("165.5")>> >>
SmallTable == << <<"USD", PyFloat("1.27")>>, <<"usd", PyIntOf(2)>>, <<"EUR", None>> >>

\* the JSON body {"rates": table}
Body(table) == << <<"rates", [dict |-> table]>> >>

Response(status, body) == [status |-> status, body |-> body]
RateResponses ==
  { Response(e, <<>>) : e \in RateErrors }
    \cup { Response("ok", Body(t)) : t \in {RateTable, SmallTable, << <<"KES", PyFloat("165.5")>> >>, <<>>} }
    \cup { Response("ok", <<>>), Response("ok", << <<"rates", None>> >>) }
MainResponses == { Response("Timeout", <<>>), Response("ok", Body(RateTable)) }

RateCodes == {"usd", "USD", "Usd", "gbp", "KES", "kes", "EUR", "eur", "JPY", "jpy", "", " usd"}

OldFile == << "name,price_gbp\r\n", "Old Book,1.0\r\n" >>

SampleProducts ==
  { << <<"name", Str("Book A")>>, <<"price_gbp", PyFloat("51.77")>> >>,
    << <<"name", Str("Book B")>>, <<"price_gbp", PyFloat("0.05")>> >>,
    << <<"name", Str("Book B")>>, <<"price_gbp", PyFloat("10.00")>> >> }
Batches == UNION { [1..k -> SampleProducts] : k \in 0..MaxBatch }
Rates == { PyFloat("1.27"), PyFloat("1.3"), PyIntOf(150), PyFloat("1.0") }
ConvertCodes == {"KES", "usd", "GBP", "gbp"}

(***************************************************************************)
(* Specifications.                                                         *)
(***************************************************************************)
\* a run of main() in a directory that holds the file of an earlier run
Init ==
  /\ pc = "main_count"
  /\ file = OldFile
  /\ entered = <<>> /\ num_products = 0 /\ target_currency = "" /\ target_count = 0
  /\ products = <<>> /\ page = 1 /\ books = <<>> /\ fetched = <<>> /\ rate = None
  /\ rate_log = <<>> /\ clock = 0 /\ conv_i = 1 /\ shown = <<>> /\ console = <<>>
  /\ trace = <<>> /\ error = ""

Next ==
  \/ MainReadCount(CountLines)
  \/ MainReadCurrency(CurrencyLines)
  \/ MainCallScrape
  \/ ScrapeWhile
  \/ FetchOk(MainPages)
  \/ FetchFail({"Timeout"})
  \/ ForAppend
  \/ ForRaise
  \/ ForEnd
  \/ NextPage
  \/ MainNoProducts
  \/ MainCallRate
  \/ RateRequest(MainResponses)
  \/ MainCallConvert
  \/ Tick
  \/ ConvertStep
  \/ ConvertEnd
  \/ SaveOk
  \/ SaveRaise
  \/ MainDisplay
  \/ MainReadPlot(PlotLines)
  \/ MainPlot

Spec == Init /\ [][Next]_vars

\* a call scrape_books(target_count)
InitScrape ==
  /\ pc = "scrape_while"
  /\ target_count \in 0..MaxTarget
  /\ entered = <<>> /\ num_products = 0 /\ target_currency = ""
  /\ products = <<>> /\ page = 1 /\ books = <<>> /\ fetched = <<>> /\ rate = None
  /\ rate_log = <<>> /\ clock = 0 /\ conv_i = 1 /\ file = <<>> /\ shown = <<>>
  /\ console = <<>> /\ trace = <<>> /\ error = ""

NextScrape ==
  \/ ScrapeWhile
  \/ FetchOk(ScrapePages)
  \/ FetchFail(FetchErrors)
  \/ ForAppend
  \/ ForRaise
  \/ ForEnd
  \/ NextPage

SpecScrape == InitScrape /\ [][NextScrape]_vars

\* the thread of control keeps running while it has a step to take
FairScrape == SpecScrape /\ WF_vars(NextScrape)

\* a call get_exchange_rate(target_currency)
InitRate ==
  /\ pc = "rate_call"
  /\ target_currency \in RateCodes
  /\ entered = <<>> /\ num_products = 0 /\ target_count = 0
  /\ products = <<>> /\ page = 1 /\ books = <<>> /\ fetched = <<>> /\ rate = None
  /\ rate_log = <<>> /\ clock = 0 /\ conv_i = 1 /\ file = <<>> /\ shown = <<>>
  /\ console = <<>> /\ trace = <<>> /\ error = ""

NextRate == RateRequest(RateResponses)

SpecRate == InitRate /\ [][NextRate]_vars

\* a call convert_prices(products, rate, target_currency) followed by save_to_csv(products)
InitConvert ==
  /\ pc = "convert_for"
  /\ products \in Batches
  /\ rate \in Rates
  /\ target_currency \in ConvertCodes
  /\ file \in {<<>>, OldFile}
  /\ entered = <<>> /\ num_products = 0 /\ target_count = 0
  /\ page = 1 /\ books = <<>> /\ fetched = <<>>
  /\ rate_log = <<>> /\ clock = 0 /\ conv_i = 1 /\ shown = <<>>
  /\ console = <<>> /\ trace = <<>> /\ error = ""

NextConvert ==
  \/ Tick
  \/ ConvertStep
  \/ ConvertEnd
  \/ SaveOk
  \/ SaveRaise

SpecConvert == InitConvert /\ [][NextConvert]_vars

(***************************************************************************)
(* Properties of scrape_books.                                             *)
(***************************************************************************)
\* the entries of the pages fetched so far, in page order then document order
RECURSIVE AllEntries(_)
AllEntries(log) == IF log = <<>> THEN <<>> ELSE Head(log).books \o AllEntries(Tail(log))

FetchFailed == fetched # <<>> /\ fetched[Len(fetched)].status # "ok"

AllFetchesGood ==
  \A i \in 1..Len(fetched) :
    /\ fetched[i].status = "ok"
    /\ fetched[i].books # <<>>
    /\ \A j \in 1..Len(fetched[i].books) : WellFormed(fetched[i].books[j])

AllPagesEmpty ==
  \A i \in 1..Len(fetched) : fetched[i].status = "ok" /\ fetched[i].books = <<>>

\* the records the first k entries of the fetched pages give
FirstRecords(k) == [i \in 1..k |-> ProductOf(AllEntries(fetched)[i])]

\* C1: for target_count >= 1 the accumulator never holds more than target_count records;
\* and when every fetch succeeded and every page held only well-formed entries, at least
\* one, scrape_books returns exactly target_count records: the first target_count entries
\* in page order then document order, each with a non-empty name and a price >= 0.
C1_ExactCount ==
  target_count >= 1 =>
    /\ Len(products) <= target_count
    /\ AllFetchesGood => pc # "raised"
    /\ (AllFetchesGood /\ pc = "scrape_return") =>
         /\ Len(products) = target_count
         /\ Len(AllEntries(fetched)) >= target_count
         /\ products = FirstRecords(target_count)
         /\ \A i \in 1..Len(products) :
              /\ Keys(products[i]) = << "name", "price_gbp" >>
              /\ Get(products[i], "name").str # ""
              /\ NonNegative(Get(products[i], "price_gbp"))

\* C1 witness: three records returned from two good pages, the second page cut mid-page
C1_Witness ==
  /\ pc = "scrape_return"
  /\ target_count = 3
  /\ AllFetchesGood
  /\ Len(fetched) = 2
  /\ Len(AllEntries(fetched)) = 5
  /\ Len(products) = 3

\* C2: pages are requested in the order 1, 2, 3, ..., each once; a failed request is the
\* last request ever made, and from then on scrape_books is at its return with exactly the
\* records of the pages before it (none when the first request failed).
C2_StopOnFetchFailure ==
  /\ \A i \in 1..Len(fetched) : fetched[i].page = i
  /\ \A i \in 1..(Len(fetched) - 1) : fetched[i].status = "ok"
  /\ FetchFailed =>
       /\ pc = "scrape_return"
       /\ error = ""
       /\ Len(products) = Len(AllEntries(fetched))
       /\ products = FirstRecords(Len(products))
       /\ Len(fetched) = 1 => products = <<>>

\* C2 witness: page 1 gave two records, the request for page 2 failed
C2_Witness ==
  /\ pc = "scrape_return"
  /\ Len(fetched) = 2
  /\ fetched[2].status = "Timeout"
  /\ Len(products) = 2
  /\ target_count = 3

Terminated == pc \in {"scrape_return", "raised"}

EnoughYielded == Len(AllEntries(fetched)) >= target_count

\* scrape_books returns only with the count reached or after a failed fetch
EndsByCountOrFailure ==
  pc = "scrape_return" => (Len(products) >= target_count \/ FetchFailed)

\* while every fetch has succeeded with an empty page the loop is still running, nothing
\* is collected, and the cursor is one past the number of pages fetched
EmptyPagesOnlyAdvance ==
  (target_count >= 1 /\ AllPagesEmpty) =>
    /\ ~Terminated
    /\ error = ""
    /\ products = <<>>
    /\ page = Len(fetched) + (IF pc \in {"scrape_while", "scrape_fetch"} THEN 1 ELSE 0)

\* C10: the loop of scrape_books ends only by reaching target_count or by a fetch failure;
\* once a fetch has failed or the pages fetched hold target_count entries the call
\* terminates; an empty page is no error and only moves the cursor on by one, so with
\* every page empty the call never terminates and the cursor keeps growing.
C10_Termination ==
  /\ (FetchFailed \/ EnoughYielded) ~> Terminated
  /\ []EndsByCountOrFailure
  /\ []EmptyPagesOnlyAdvance

\* C10 witness: every page the site can serve was fetched and was empty, and the cursor
\* has moved past all of them with the call still running
C10_Witness ==
  /\ target_count >= 1
  /\ AllPagesEmpty
  /\ Len(fetched) = MaxPages
  /\ page = MaxPages + 1
  /\ pc = "scrape_fetch"

(***************************************************************************)
(* Properties of get_exchange_rate.                                        *)
(***************************************************************************)
\* t starts with p / ends with p
StartsWith(t, p) == Len(t) >= Len(p) /\ SubSeq(t, 1, Len(p)) = p
EndsWith(t, p) == Len(t) >= Len(p) /\ SubSeq(t, Len(t) - Len(p) + 1, Len(t)) = p

\* C5: get_exchange_rate makes exactly one request and never raises; when the request
\* succeeds and the table holds a rate under the upper-cased code it returns that rate and
\* prints nothing; in every other case (no connection, bad status, body that is not JSON,
\* no rate table, code absent or without a rate) it returns 180.0 and prints one message.
C5_RateOrFallback ==
  /\ pc \in {"rate_call", "rate_return"}
  /\ error = ""
  /\ Len(rate_log) = (IF pc = "rate_return" THEN 1 ELSE 0)
  /\ pc = "rate_return" =>
       LET r == rate_log[1]
           code == Upper(target_currency)
           table == IF r.status = "ok" /\ r.body # <<>> /\ r.body[1][2] # None
                    THEN r.body[1][2].dict ELSE <<>>
           found == \E i \in 1..Len(table) : table[i][1] = code /\ table[i][2] # None
       IN IF found
          THEN /\ \E i \in 1..Len(table) : table[i][1] = code /\ rate = table[i][2]
               /\ console = <<>>
          ELSE /\ rate = PyFloat("180.0")
               /\ FloatStr(rate) = "180.0"
               /\ Len(console) = 1
               /\ StartsWith(console[1], "Failed to fetch exchange rate (")
               /\ EndsWith(console[1], "), using fallback rate.\n")

\* C5 witness: 'usd' finds the entry under 'USD' in a table that also has a key 'usd'
C5_Witness ==
  /\ pc = "rate_return"
  /\ target_currency = "usd"
  /\ rate_log = << Response("ok", Body(SmallTable)) >>
  /\ rate = PyFloat("1.27")
  /\ console = <<>>

(***************************************************************************)
(* Properties of convert_prices and save_to_csv.                           *)
(***************************************************************************)
\* C3: after convert_prices has run, every record of the batch carries the same capture
\* timestamp.
C3_SharedTimestamp ==
  pc = "convert_return" =>
    \A i, j \in 1..Len(products) :
      Get(products[i], "timestamp") = Get(products[j], "timestamp")

\* C4: convert_prices keeps the number and order of the records; every step of its loop
\* leaves every record's name and source price as they were and gives the record at hand
\* a target price round(source price * rate, 2) in a field of its own, next to the name,
\* the source price and the timestamp.
C4_SourcePriceKept ==
  [][pc = "convert_for" =>
       /\ Len(products') = Len(products)
       /\ \A i \in 1..Len(products) :
            /\ Get(products'[i], "name") = Get(products[i], "name")
            /\ Get(products'[i], "price_gbp") = Get(products[i], "price_gbp")
       /\ conv_i' # conv_i =>
            /\ Len(products'[conv_i]) = 4
            /\ HasKey(products'[conv_i], "price_" \o Lower(target_currency))
            /\ Get(products'[conv_i], "price_" \o Lower(target_currency))
                 = Round2(Mul(Get(products[conv_i], "price_gbp"), rate))]_vars

\* C9: the file save_to_csv leaves holds one header line and one line per record in batch
\* order, with the four distinct columns name, source price, target price and timestamp,
\* whatever the file held before.
C9_FourColumnFile ==
  pc = "save_return" =>
    LET cols == << "name", "price_gbp", "price_" \o Lower(target_currency), "timestamp" >> IN
    /\ Len(file) = 1 + Len(products)
    /\ Cardinality({ cols[j] : j \in 1..4 }) = 4
    /\ file[1] = CsvLine(cols)
    /\ target_currency = "KES" => file[1] = "name,price_gbp,price_kes,timestamp\r\n"
    /\ \A i \in 1..Len(products) :
         /\ Len(products[i]) = 4
         /\ file[i + 1] = CsvLine([j \in 1..4 |-> CellStr(Get(products[i], cols[j]))])

(***************************************************************************)
(* Properties of main.                                                     *)
(***************************************************************************)
\* C6: the count main hands to scrape_books is the entered integer when the line parses to
\* an integer >= 1 and 10 otherwise, so never below 1; the currency is the stripped,
\* upper-cased line, or KES when that is empty; and once scrape_books has been called
\* neither value changes.
ConfigurationValid ==
  /\ Len(entered) >= 1 =>
       /\ num_products >= 1
       /\ num_products = (IF IntOk(entered[1]) /\ PyInt(entered[1]) >= 1
                          THEN PyInt(entered[1]) ELSE 10)
       /\ entered[1] \in {"0", "-1", "abc", ""} => num_products = 10
       /\ entered[1] = "2" => num_products = 2
       /\ entered[1] = "\f3 " => num_products = 3
  /\ Len(entered) >= 2 =>
       /\ target_currency = (IF Upper(Strip(entered[2])) = "" THEN "KES"
                             ELSE Upper(Strip(entered[2])))
       /\ entered[2] = "\fusd " => target_currency = "USD"
  /\ trace # <<>> => (Len(entered) >= 2 /\ target_count = num_products)

C6_RunConfiguration ==
  /\ []ConfigurationValid
  /\ [][trace # <<>> =>
          /\ num_products' = num_products
          /\ target_count' = target_count
          /\ target_currency' = target_currency]_vars

\* C6 witness: "0" and an empty currency line were entered and scrape_books was called
\* for 10 records, to be priced in KES
C6_Witness ==
  /\ entered = << "0", "" >>
  /\ trace = << "scrape_books" >>
  /\ target_count = 10
  /\ target_currency = "KES"

StageOrder ==
  << "scrape_books", "get_exchange_rate", "convert_prices", "save_to_csv", "display_table",
     "plot_prices" >>

\* the run is over: main returned, or an exception no handler catches ended it
RunEnded == pc \in {"done", "raised"}

\* float() raised inside scrape_books, which therefore returned nothing to main
ScrapeRaised == pc = "raised" /\ trace = << "scrape_books" >>

\* the run is over and scrape_books had returned an empty batch to main
ReturnedEmpty == RunEnded /\ ~ScrapeRaised /\ products = <<>>

\* the run is over and scrape_books had returned a non-empty batch to main
ReturnedBatch == RunEnded /\ ~ScrapeRaised /\ products # <<>>

\* C7 as claimed: main calls the stages in the order collect, rate lookup, convert,
\* persist, display, chart, each at most once; every run in which collection returned an
\* empty batch ends with no rate request, no file written and no table shown; every run
\* in which collection returned a batch, full or cut short by a failed fetch, ends with
\* one rate request made, every record converted, the file written and the table shown;
\* the chart is drawn only after the table and only on the answer y.
C7_EveryRunAllStages ==
  /\ Len(trace) <= 6
  /\ trace = SubSeq(StageOrder, 1, Len(trace))
  /\ Len(rate_log) <= 1
  /\ Len(rate_log) = 1 => Len(trace) >= 2
  /\ ReturnedEmpty =>
       /\ trace = << "scrape_books" >>
       /\ rate_log = <<>>
       /\ file = OldFile
       /\ shown = <<>>
  /\ ReturnedBatch =>
       /\ Len(trace) >= 5
       /\ Len(rate_log) = 1
       /\ \A i \in 1..Len(products) : HasKey(products[i], "timestamp")
       /\ Len(file) = 1 + Len(products)
       /\ Len(shown) = 1 + Len(products)
  /\ Len(trace) = 6 =>
       /\ shown # <<>>
       /\ Len(entered) = 3
       /\ Lower(Strip(entered[3])) = "y"

\* C7 as amended: main calls the stages in the order collect, rate lookup, convert,
\* persist, display, chart, each at most once; a run that ends with an empty batch has made
\* no rate request, written no file and shown no table; a run in which collection returned
\* a batch, full or cut short by a failed fetch, either ends normally, with one rate
\* request made, every record converted, the file written and the table shown, or is ended
\* by save_to_csv failing to open the file, with one rate request made and every record
\* converted, but the file left as it was, no table shown and no chart drawn; the chart is
\* drawn only after the table and only on the answer y.
C7_StageOrder ==
  /\ Len(trace) <= 6
  /\ trace = SubSeq(StageOrder, 1, Len(trace))
  /\ Len(rate_log) <= 1
  /\ Len(rate_log) = 1 => Len(trace) >= 2
  /\ ReturnedEmpty => pc = "done"
  /\ (pc = "done" /\ products = <<>>) =>
       /\ trace = << "scrape_books" >>
       /\ rate_log = <<>>
       /\ file = OldFile
       /\ shown = <<>>
  /\ (pc = "done" /\ products # <<>>) =>
       /\ Len(trace) >= 5
       /\ Len(rate_log) = 1
       /\ \A i \in 1..Len(products) : HasKey(products[i], "timestamp")
       /\ Len(file) = 1 + Len(products)
       /\ Len(shown) = 1 + Len(products)
  /\ (ReturnedBatch /\ pc = "raised") =>
       /\ error = "OSError"
       /\ trace = SubSeq(StageOrder, 1, 4)
       /\ Len(rate_log) = 1
       /\ \A i \in 1..Len(products) : HasKey(products[i], "timestamp")
       /\ file = OldFile
       /\ shown = <<>>
  /\ Len(trace) = 6 =>
       /\ shown # <<>>
       /\ Len(entered) = 3
       /\ Lower(Strip(entered[3])) = "y"

\* C7 witness: page 2 failed after page 1 gave two of three records, and the run went on
\* through every stage, the chart included
C7_Witness ==
  /\ pc = "done"
  /\ FetchFailed
  /\ Len(products) = 2
  /\ target_count = 3
  /\ trace = StageOrder

\* entry k of the fetched pages has price text float() rejects
BadEntryAt(k) == ~FloatOk(PriceText(AllEntries(fetched)[k]))

\* some entry of the pages in log has price text float() rejects
AnyFrom(log) ==
  \E k \in 1..Len(AllEntries(log)) : ~FloatOk(PriceText(AllEntries(log)[k]))

AnyBadEntry == \E k \in 1..Len(AllEntries(fetched)) : BadEntryAt(k)

\* a bad entry among the first target_count entries: the for loop gets to it
BadEntryInReach ==
  \E k \in 1..Len(AllEntries(fetched)) : k <= target_count /\ BadEntryAt(k)

RunAborted ==
  /\ pc \in {"scrape_for", "raised"}
  /\ pc = "raised" => error = "ValueError"
  /\ trace = << "scrape_books" >>
  /\ rate_log = <<>>
  /\ file = OldFile
  /\ shown = <<>>
  /\ \A i \in 1..Len(products) : ~HasKey(products[i], "timestamp")
  /\ ~AnyFrom(SubSeq(fetched, 1, Len(fetched) - 1))

\* C8 as claimed: a price text float() rejects anywhere on a fetched page aborts the run:
\* scrape_books returns no batch and main makes no rate request, converts nothing, writes
\* no file and shows no table.
C8_AnyBadEntryAborts ==
  AnyBadEntry =>
    /\ pc # "scrape_return"
    /\ trace = << "scrape_books" >>
    /\ rate_log = <<>>
    /\ file = OldFile
    /\ shown = <<>>

\* C8 as amended: a price text float() rejects in an entry the for loop gets to, that is
\* among the first target_count entries of the pages fetched, aborts the run: the loop
\* raises at that entry, scrape_books returns nothing, no further page is fetched and
\* main makes no rate request, converts nothing, writes no file and shows no table; a
\* price text float() rejects in an entry past the first target_count is never parsed:
\* float() raises nothing and scrape_books returns target_count records.
C8_ReachedBadEntryAborts ==
  /\ [](BadEntryInReach => RunAborted)
  /\ [][(BadEntryInReach /\ books # <<>> /\ ~FloatOk(PriceText(Head(books))))
          => (pc' = "raised" /\ error' = "ValueError")]_vars
  /\ []((AnyBadEntry /\ ~BadEntryInReach) =>
         /\ error # "ValueError"
         /\ ~ScrapeRaised
         /\ Len(products) <= target_count
         /\ pc \notin {"scrape_while", "scrape_fetch", "scrape_for", "scrape_next"}
              => Len(products) = target_count)

\* C8 witness: the run ended with ValueError after one record had been collected
C8_Witness ==
  /\ pc = "raised"
  /\ error = "ValueError"
  /\ BadEntryInReach
  /\ Len(products) = 1
  /\ trace = << "scrape_books" >>

=============================================================================
